---- MODULE Spec2Model ----
(***************************************************************************)
(* State machine of the heating dashboard (src/dashboard2.0.py): the       *)
(* Streamlit session state, the auto-refresh tick (demo generator or       *)
(* serial ingest), the telemetry message handler and the operator          *)
(* handlers.  The older demo dashboard (src/dashboard.py) is a second,     *)
(* independent program; its session state is the variable simple.          *)
(*                                                                         *)
(* Units.  Temperatures are integers in tenths of a degree (75.0 is 750).  *)
(* Time is an integer number of seconds; maintenance hours are kept in     *)
(* the same fixed point (1 hour is SecPerHour units), so that              *)
(* (time.time() - last_tick) / 3600.0 hours is the elapsed seconds.        *)
(* An optional value (a Python None, an absent JSON key) is the empty      *)
(* sequence; a present value v is <<v>>.                                   *)
(***************************************************************************)
EXTENDS Integers, Sequences, FiniteSets, TLC

\* ------------------------------------------------------------- bounds
\* The clock stops the run at MaxTime: every tick advances it.
MaxTime == 3
\* Largest shelf count a STATUS message reports.
MaxShelves == 3
\* Capacity of a history deque (HISTORY_LEN = 300 in the source, scaled).
HISTORY_LEN == 3
\* Longest run of lines the serial port delivers to one tick.
MaxLines == 2
\* Lines a flood holds beyond the cap of one drain.
FloodExtra == 2
\* Script runs of the demo dashboard (each run sleeps one second).
MaxRuns == 8

\* ---------------------------------------------------------- constants
MIN_TEMP == 0
MAX_TEMP == 1200
DEFAULT_NUM_SHELVES == 2
DefaultSetpoint == 750
DefaultUpper == 770
DefaultLower == 730
SecPerHour == 3600
DefaultFanLife == 2000 * SecPerHour
DefaultElementLife == 3000 * SecPerHour
\* read_all(max_lines=200)
MAX_LINES == 200
\* dashboard.py
NUM_SHELVES == 2
StartTemp == 720

None == <<>>
Some(v) == <<v>>
\* dict.get(key, default) on an optional field
Get(o, default) == IF o = None THEN default ELSE o[1]

\* str.upper() on the severities the inputs use
Upper(sev) ==
  CASE sev = "critical" -> "CRITICAL"
    [] sev = "error" -> "ERROR"
    [] sev = "warning" -> "WARNING"
    [] OTHER -> sev

\* f"{v:.1f}" of a non-negative temperature in tenths
Fmt1(v) == ToString(v \div 10) \o "." \o ToString(v % 10)

clamp(v, lo, hi) ==
  LET m == IF hi < v THEN hi ELSE v
  IN IF lo > m THEN lo ELSE m

DefaultShelf ==
  [is_on |-> TRUE, setpoint |-> DefaultSetpoint,
   upper |-> DefaultUpper, lower |-> DefaultLower]

\* A full deque that drops the new sample instead of the oldest.
DequeAppend_dropnew(q, v) ==
  IF Len(q) >= HISTORY_LEN THEN q ELSE Append(q, v)

\* deque(maxlen=HISTORY_LEN).append(v)
DequeAppend(q, v) ==
  IF Len(q) >= HISTORY_LEN THEN Append(Tail(q), v) ELSE Append(q, v)

\* A Python list index i on a list of length n: negative indices count from
\* the end, anything outside -n..n-1 raises IndexError.
ValidIdx(i, n) == -n <= i /\ i < n
Pos(i, n) == (IF i < 0 THEN i + n ELSE i) + 1

\* s.logs.append(entry); logs holds the entries appended by the last handler.
Log(s, entry) == [s EXCEPT !.logs = Append(@, entry)]
Raise(s) == [s EXCEPT !.exc = TRUE]

\* ------------------------------------------------------ alarm registry
KeyStr(sev, shelf, name) == "[" \o sev \o "] S" \o ToString(shelf) \o " " \o name

\* st.session_state.alarms.get(sev, [])
Bucket(al, sev) == IF sev \in DOMAIN al THEN al[sev] ELSE <<>>

\* Position of the first record of bucket sev with (shelf, name); 0 is None.
find_alarm(al, sev, shelf, name) ==
  LET arr == Bucket(al, sev)
      hits == {k \in 1..Len(arr) : arr[k].shelf = shelf /\ arr[k].name = name}
  IN IF hits = {} THEN 0 ELSE CHOOSE k \in hits : \A j \in hits : k <= j

\* The same, with the raise made unconditional (no de-duplication).
add_alarm_dup(s, sev, shelf, name, desc, ack) ==
  LET al1 == IF sev \in DOMAIN s.alarms THEN s.alarms ELSE s.alarms @@ (sev :> <<>>)
      rec == [shelf |-> shelf, name |-> name, desc |-> desc, ts |-> s.now, ack |-> ack]
  IN Log([s EXCEPT !.alarms = [al1 EXCEPT ![sev] = Append(@, rec)]],
         "Alarm: " \o KeyStr(sev, shelf, name))

\* The same, with an existing record overwritten by the new raise.
add_alarm_reset(s, sev, shelf, name, desc, ack) ==
  LET al1 == IF sev \in DOMAIN s.alarms THEN s.alarms ELSE s.alarms @@ (sev :> <<>>)
      rec == [shelf |-> shelf, name |-> name, desc |-> desc, ts |-> s.now, ack |-> ack]
      k == find_alarm(al1, sev, shelf, name)
  IN IF k = 0
       THEN Log([s EXCEPT !.alarms = [al1 EXCEPT ![sev] = Append(@, rec)]],
                "Alarm: " \o KeyStr(sev, shelf, name))
       ELSE [s EXCEPT !.alarms = [al1 EXCEPT ![sev][k] = rec]]

add_alarm(s, sev, shelf, name, desc, ack) ==
  LET al1 == IF sev \in DOMAIN s.alarms THEN s.alarms ELSE s.alarms @@ (sev :> <<>>)
      rec == [shelf |-> shelf, name |-> name, desc |-> desc, ts |-> s.now, ack |-> ack]
  IN IF find_alarm(al1, sev, shelf, name) = 0
       THEN Log([s EXCEPT !.alarms = [al1 EXCEPT ![sev] = Append(@, rec)]],
                "Alarm: " \o KeyStr(sev, shelf, name))
       ELSE [s EXCEPT !.alarms = al1]

\* SerialLink.send through send_to_pi: a write that fails is logged.
send_to_pi(s, wfail) ==
  IF s.link = "open" /\ wfail THEN Log(s, "Serial write error") ELSE s

ack_alarm(s, sev, shelf, name, wfail) ==
  LET k == find_alarm(s.alarms, sev, shelf, name)
  IN IF k # 0 /\ ~s.alarms[sev][k].ack
       THEN send_to_pi(Log([s EXCEPT !.alarms[sev][k].ack = TRUE],
                           "Ack: " \o KeyStr(sev, shelf, name)), wfail)
       ELSE s

\* Sequence filter, keeping the order.
RECURSIVE Without(_, _, _)
Without(arr, shelf, name) ==
  IF arr = <<>> THEN <<>>
  ELSE IF Head(arr).shelf = shelf /\ Head(arr).name = name
         THEN Without(Tail(arr), shelf, name)
         ELSE <<Head(arr)>> \o Without(Tail(arr), shelf, name)

RECURSIVE WithoutShelf(_, _)
WithoutShelf(arr, shelf) ==
  IF arr = <<>> THEN <<>>
  ELSE IF Head(arr).shelf = shelf
         THEN WithoutShelf(Tail(arr), shelf)
         ELSE <<Head(arr)>> \o WithoutShelf(Tail(arr), shelf)

\* The clear that keeps the record and only logs.
clear_alarm_keep(s, sev, shelf, name) ==
  IF sev \notin DOMAIN s.alarms THEN Raise(s)
  ELSE IF find_alarm(s.alarms, sev, shelf, name) # 0
         THEN Log(s, "Cleared: " \o KeyStr(sev, shelf, name))
         ELSE s

\* alarms[sev] of a severity without a bucket raises KeyError.
clear_alarm(s, sev, shelf, name) ==
  IF sev \notin DOMAIN s.alarms THEN Raise(s)
  ELSE IF find_alarm(s.alarms, sev, shelf, name) # 0
         THEN Log([s EXCEPT !.alarms[sev] = Without(@, shelf, name)],
                  "Cleared: " \o KeyStr(sev, shelf, name))
         ELSE s

ack_all_alarms(s) ==
  Log([s EXCEPT !.alarms =
         [sev \in DOMAIN s.alarms |->
            IF sev \in {"CRITICAL", "ERROR"}
              THEN [k \in 1..Len(s.alarms[sev]) |-> [s.alarms[sev][k] EXCEPT !.ack = TRUE]]
              ELSE s.alarms[sev]]],
      "Ack all alarms")

\* The per-shelf clear with the shelf test left out: both buckets emptied.
clear_shelf_all(s, i) ==
  [s EXCEPT !.alarms = [sev \in DOMAIN s.alarms |->
                          IF sev \in {"CRITICAL", "ERROR"} THEN <<>> ELSE s.alarms[sev]]]

\* The per-shelf clear of a snapshot: both fixed buckets lose shelf i.
clear_shelf(s, i) ==
  [s EXCEPT !.alarms = [sev \in DOMAIN s.alarms |->
                          IF sev \in {"CRITICAL", "ERROR"}
                            THEN WithoutShelf(s.alarms[sev], i)
                            ELSE s.alarms[sev]]]

\* ------------------------------------------------- telemetry messages
\* A decoded message is a record with every key; an absent key is None
\* (an absent list is the empty list, as msg.get(key, []) reads it).
Msg(type) ==
  [type |-> type, shelf |-> None, value |-> None, shelves |-> <<>>,
   alarms |-> <<>>, maintenance |-> None]

\* One entry of STATUS.shelves with every key absent.
Entry ==
  [shelf |-> None, temp |-> None, setpoint |-> None, systemOn |-> None,
   fanHours |-> None, elementHours |-> None, alarms |-> <<>>]

\* One entry of an alarms list.
Alarm(name, sev, active, desc, ack) ==
  [name |-> name, severity |-> sev, active |-> active, desc |-> desc, ack |-> ack]

\* STATUS: rebuild the alarms of shelf idx from the entry's list.
RECURSIVE StatusAlarms(_, _, _)
StatusAlarms(s, idx, as) ==
  IF as = <<>> THEN s
  ELSE LET a == Head(as)
           name == Get(a.name, "ALARM")
           sev == Upper(Get(a.severity, "ERROR"))
           desc == Get(a.desc, name)
           s1 == IF Get(a.active, FALSE)
                   THEN add_alarm(s, sev, idx, name, desc, Get(a.ack, FALSE))
                   ELSE s
       IN StatusAlarms(s1, idx, Tail(as))

\* STATUS: one entry sh at enumerate position k (0-based).
StatusEntry(s, k, sh) ==
  LET idx == Get(sh.shelf, k) - 1
      n == Len(s.latest_temp)
      sp_arr == Get(sh.setpoint, <<DefaultSetpoint, DefaultUpper, DefaultLower>>)
      sp == IF Len(sp_arr) > 0 THEN sp_arr[1] ELSE DefaultSetpoint
      up == IF Len(sp_arr) > 1 THEN sp_arr[2] ELSE sp + 20
      lo == IF Len(sp_arr) > 2 THEN sp_arr[3] ELSE sp - 20
  IN IF ~ValidIdx(idx, n) THEN Raise(s)
     ELSE LET p == Pos(idx, n)
              s1 == [s EXCEPT !.latest_temp[p] = sh.temp,
                              !.shelves[p] = [is_on |-> Get(sh.systemOn, TRUE),
                                              setpoint |-> sp, upper |-> up, lower |-> lo]]
          IN IF sh.temp # None /\ idx \notin DOMAIN s1.hist THEN Raise(s1)
             ELSE LET s2 == IF sh.temp # None
                              THEN [s1 EXCEPT !.hist[idx] = DequeAppend(@, sh.temp)]
                              ELSE s1
                      s3 == [s2 EXCEPT
                               !.maintenance.fan_hours = Get(sh.fanHours, @),
                               !.maintenance.element_hours = Get(sh.elementHours, @)]
                  IN StatusAlarms(clear_shelf(s3, idx), idx, sh.alarms)

RECURSIVE StatusEntries(_, _, _)
StatusEntries(s, k, shs) ==
  IF shs = <<>> \/ s.exc THEN s
  ELSE StatusEntries(StatusEntry(s, k, Head(shs)), k + 1, Tail(shs))

\* The reallocation with the histories of the surviving indices kept.
Resize_keephist(s, count) ==
  IF count # s.num_shelves
    THEN [s EXCEPT !.num_shelves = count,
                   !.shelves = [i \in 1..count |-> DefaultShelf],
                   !.hist = [i \in 0..(count - 1) |->
                               IF i \in DOMAIN s.hist THEN s.hist[i] ELSE <<>>],
                   !.latest_temp = [i \in 1..count |-> None]]
    ELSE s

\* The reallocation with the history map left as it was.
Resize_oldhist(s, count) ==
  IF count # s.num_shelves
    THEN [s EXCEPT !.num_shelves = count,
                   !.shelves = [i \in 1..count |-> DefaultShelf],
                   !.latest_temp = [i \in 1..count |-> None]]
    ELSE s

\* STATUS: reallocate the store when the shelf count changed.
Resize(s, count) ==
  IF count # s.num_shelves
    THEN [s EXCEPT !.num_shelves = count,
                   !.shelves = [i \in 1..count |-> DefaultShelf],
                   !.hist = [i \in 0..(count - 1) |-> <<>>],
                   !.latest_temp = [i \in 1..count |-> None]]
    ELSE s

ProcessStatus(s, msg) ==
  LET s1 == StatusEntries(Resize(s, Len(msg.shelves)), 0, msg.shelves)
      m == Get(msg.maintenance, <<DefaultFanLife, DefaultElementLife>>)
      s2 == IF Len(m) >= 2
              THEN [s1 EXCEPT !.maintenance.fan_life_hours = m[1],
                              !.maintenance.element_life_hours = m[2]]
              ELSE s1
  IN IF s1.exc THEN s1 ELSE [s2 EXCEPT !.last_update_ts = s.now]

ProcessLiveTemp(s, msg) ==
  LET i == Get(msg.shelf, 1) - 1
      n == Len(s.latest_temp)
  IN IF ~ValidIdx(i, n) THEN Raise(s)
     ELSE LET s1 == [s EXCEPT !.latest_temp[Pos(i, n)] = msg.value]
          IN IF i \notin DOMAIN s1.hist THEN Raise(s1)
             ELSE [s1 EXCEPT !.hist[i] = DequeAppend(@, msg.value),
                             !.last_update_ts = s.now]

\* ALARM_STATE: a["name"] of an active entry without a name raises KeyError.
RECURSIVE StateAlarms(_, _, _)
StateAlarms(s, i, as) ==
  IF as = <<>> \/ s.exc THEN s
  ELSE LET a == Head(as)
           sev == Upper(Get(a.severity, "ERROR"))
           s1 == IF Get(a.active, FALSE)
                   THEN IF a.name = None THEN Raise(s)
                        ELSE add_alarm(s, sev, i, a.name[1], Get(a.desc, a.name[1]),
                                       Get(a.ack, FALSE))
                   ELSE s
       IN StateAlarms(s1, i, Tail(as))

ProcessAlarmState(s, msg) ==
  LET i == Get(msg.shelf, 1) - 1
      s1 == StateAlarms(clear_shelf(s, i), i, msg.alarms)
  IN IF s1.exc THEN s1 ELSE [s1 EXCEPT !.last_update_ts = s.now]

process_msg(s, msg) ==
  CASE msg.type = "STATUS" -> ProcessStatus(s, msg)
    [] msg.type = "LIVE_TEMP" -> ProcessLiveTemp(s, msg)
    [] msg.type = "ALARM_STATE" -> ProcessAlarmState(s, msg)
    [] msg.type = "LOG" -> Log(s, "INFO: ")
    [] OTHER -> s

\* ------------------------------------------------------- serial link
\* One line the port delivers: a JSON document (decoded to msg), text that
\* is not JSON, a blank line, a read that raises, or the empty read
\* (timeout) with more lines arriving later.  The end of the sequence is an
\* empty read as well.
Line(kind, msg) == [kind |-> kind, msg |-> msg]

\* One iteration of the loop of SerialLink.read_all on the line l: r.msgs
\* are the decoded messages so far, r.s the state with the log entries of
\* the read, r.stop the break.
read_line(r, l) ==
  CASE l.kind = "error" -> [r EXCEPT !.s = Log(@, "Serial read error"), !.stop = TRUE]
    [] l.kind = "empty" -> [r EXCEPT !.stop = TRUE]
    [] l.kind = "blank" -> r
    [] l.kind = "raw" -> [r EXCEPT !.s = Log(@, "RAW")]
    [] OTHER -> [r EXCEPT !.msgs = Append(@, l.msg)]

\* The iterations over a run of lines, in order, up to the break (the run is
\* split in halves to keep the evaluation shallow).
RECURSIVE read_run(_, _)
read_run(r, lines) ==
  IF r.stop \/ lines = <<>> THEN r
  ELSE IF Len(lines) = 1 THEN read_line(r, lines[1])
  ELSE LET h == Len(lines) \div 2
       IN read_run(read_run(r, SubSeq(lines, 1, h)), SubSeq(lines, h + 1, Len(lines)))

\* for _ in range(left): at most left reads, so at most the first left
\* lines are seen.
read_lines(s, lines, msgs, left) ==
  LET n == IF left < Len(lines) THEN left ELSE Len(lines)
      r == read_run([s |-> s, msgs |-> msgs, stop |-> FALSE], SubSeq(lines, 1, n))
  IN [s |-> r.s, msgs |-> r.msgs]

\* The drain without the cap on the number of reads.
read_all_nocap(s, lines) ==
  IF s.link # "open" THEN [s |-> s, msgs |-> <<>>]
  ELSE read_lines(s, lines, <<>>, Len(lines))

read_all(s, lines) ==
  IF s.link # "open" THEN [s |-> s, msgs |-> <<>>]
  ELSE read_lines(s, lines, <<>>, MAX_LINES)

\* for msg in msgs: process_msg(msg); an exception ends the script run
\* (the list is split in halves to keep the evaluation shallow).
RECURSIVE process_all(_, _)
process_all(s, msgs) ==
  IF msgs = <<>> \/ s.exc THEN s
  ELSE IF Len(msgs) = 1 THEN process_msg(s, msgs[1])
  ELSE LET h == Len(msgs) \div 2
       IN process_all(process_all(s, SubSeq(msgs, 1, h)), SubSeq(msgs, h + 1, Len(msgs)))

read_from_pi(s, lines) ==
  IF s.link # "open" THEN s
  ELSE LET r == read_all(s, lines) IN process_all(r.s, r.msgs)

\* The connection attempt made on every tick that starts in DEMO.
ensure_serial_retry(s, opened, wfail) ==
  IF s.attempted_connect /\ ~s.demo_mode THEN s
  ELSE LET s1 == [s EXCEPT !.attempted_connect = TRUE]
       IN IF ~s.serial
            THEN Log([s1 EXCEPT !.demo_mode = TRUE], "pyserial not installed; demo mode.")
            ELSE IF opened
                   THEN send_to_pi(Log([s1 EXCEPT !.link = "open",
                                                  !.serial_connected = TRUE,
                                                  !.demo_mode = FALSE],
                                       "Connected"), wfail)
                   ELSE Log(Log([s1 EXCEPT !.link = "closed",
                                           !.serial_connected = FALSE,
                                           !.demo_mode = TRUE],
                                "Serial open error"), "Failed to open")

\* opened: serial.Serial(...) succeeded; wfail: the GET_STATUS write failed.
ensure_serial_once(s, opened, wfail) ==
  IF s.attempted_connect THEN s
  ELSE LET s1 == [s EXCEPT !.attempted_connect = TRUE]
       IN IF ~s.serial
            THEN Log([s1 EXCEPT !.demo_mode = TRUE], "pyserial not installed; demo mode.")
            ELSE IF opened
                   THEN send_to_pi(Log([s1 EXCEPT !.link = "open",
                                                  !.serial_connected = TRUE,
                                                  !.demo_mode = FALSE],
                                       "Connected"), wfail)
                   ELSE Log(Log([s1 EXCEPT !.link = "closed",
                                           !.serial_connected = FALSE,
                                           !.demo_mode = TRUE],
                                "Serial open error"), "Failed to open")

\* ----------------------------------------------------- demo generator
\* random.uniform(-0.25, 0.35) and random.uniform(0.0, 0.2), three draws each
OnDelta(q) == CASE q = 0 -> -2 [] q = 1 -> 0 [] OTHER -> 3
OffDelta(q) == CASE q = 0 -> 0 [] q = 1 -> 1 [] OTHER -> 2

\* The heuristic with the clear of the lower severity left out.
DemoAlarms_noclear(s, i, cur) ==
  LET b == s.shelves[i + 1]
  IN IF cur > b.upper + 60
       THEN add_alarm(s, "CRITICAL", i, "OVERHEAT",
                      Fmt1(cur) \o "C >> " \o Fmt1(b.upper) \o "C", FALSE)
       ELSE IF cur > b.upper + 30
              THEN clear_alarm(add_alarm(s, "ERROR", i, "OVERTEMP",
                                         Fmt1(cur) \o "C > " \o Fmt1(b.upper) \o "C", FALSE),
                               "CRITICAL", i, "OVERHEAT")
              ELSE clear_alarm(clear_alarm(s, "ERROR", i, "OVERTEMP"),
                               "CRITICAL", i, "OVERHEAT")

\* The alarm heuristic of shelf i at temperature cur.
DemoAlarms(s, i, cur) ==
  LET b == s.shelves[i + 1]
  IN IF cur > b.upper + 60
       THEN clear_alarm(add_alarm(s, "CRITICAL", i, "OVERHEAT",
                                  Fmt1(cur) \o "C >> " \o Fmt1(b.upper) \o "C", FALSE),
                        "ERROR", i, "OVERTEMP")
       ELSE IF cur > b.upper + 30
              THEN clear_alarm(add_alarm(s, "ERROR", i, "OVERTEMP",
                                         Fmt1(cur) \o "C > " \o Fmt1(b.upper) \o "C", FALSE),
                               "CRITICAL", i, "OVERHEAT")
              ELSE clear_alarm(clear_alarm(s, "ERROR", i, "OVERTEMP"),
                               "CRITICAL", i, "OVERHEAT")

\* One shelf of the tick; q is the random draw.
DemoShelf(s, i, q) ==
  LET b == s.shelves[i + 1]
      lt == s.latest_temp[i + 1]
      start == IF lt = None \/ lt = Some(0) THEN (b.lower + b.upper) \div 2 ELSE lt[1]
      cur == clamp(IF b.is_on THEN start + OnDelta(q) ELSE start - OffDelta(q),
                   MIN_TEMP, MAX_TEMP)
      s1 == [s EXCEPT !.latest_temp[i + 1] = Some(cur),
                      !.hist[i] = DequeAppend(@, Some(cur))]
  IN DemoAlarms(s1, i, cur)

RECURSIVE DemoShelves(_, _, _)
DemoShelves(s, i, draws) ==
  IF i >= s.num_shelves THEN s
  ELSE DemoShelves(DemoShelf(s, i, draws[i]), i + 1, draws)

DemoTick(s, draws) ==
  LET s1 == DemoShelves(s, 0, draws)
      s2 == IF \E k \in 1..Len(s1.shelves) : s1.shelves[k].is_on
              THEN [s1 EXCEPT !.maintenance.fan_hours = @ + (s.now - s.last_tick),
                              !.maintenance.element_hours = @ + (s.now - s.last_tick)]
              ELSE s1
  IN [s2 EXCEPT !.last_tick = s.now, !.last_update_ts = s.now]

\* ---------------------------------------------------- maintenance tab
\* The remaining life without the floor at zero.
remain_fan_raw(m) == m.fan_life_hours - m.fan_hours

\* max(0.0, m["fan_life_hours"] - m["fan_hours"])
remain_fan(m) ==
  LET d == m.fan_life_hours - m.fan_hours IN IF d > 0 THEN d ELSE 0

\* max(0.0, m["element_life_hours"] - m["element_hours"])
remain_elem(m) ==
  LET d == m.element_life_hours - m.element_hours IN IF d > 0 THEN d ELSE 0

\* ------------------------------------------- dashboard.py (demo only)
\* d is the session state of dashboard.py: temps, bounds, history and
\* alarms by shelf 0..NUM_SHELVES-1, the log entries of the current run,
\* and the time.
SimpleShelves == 0..(NUM_SHELVES - 1)

SimpleBounds == [setpoint |-> 750, upper |-> 800, lower |-> 730, isOn |-> TRUE]

log(d, msg) == [d EXCEPT !.logs = Append(@, msg)]

\* add_alarm of dashboard.py keyed by name and severity.
simple_add_alarm_bysev(d, shelf, name, severity, description) ==
  IF \E k \in 1..Len(d.alarms[shelf]) :
       d.alarms[shelf][k].name = name /\ d.alarms[shelf][k].severity = severity
    THEN d
    ELSE log([d EXCEPT !.alarms[shelf] =
                Append(@, [name |-> name, severity |-> severity, ack |-> FALSE,
                           desc |-> description, ts |-> d.now])],
             "Alarm triggered: Shelf " \o ToString(shelf) \o " " \o name
               \o " (" \o severity \o ")")

\* add_alarm of dashboard.py
simple_add_alarm(d, shelf, name, severity, description) ==
  IF \E k \in 1..Len(d.alarms[shelf]) : d.alarms[shelf][k].name = name
    THEN d
    ELSE log([d EXCEPT !.alarms[shelf] =
                Append(@, [name |-> name, severity |-> severity, ack |-> FALSE,
                           desc |-> description, ts |-> d.now])],
             "Alarm triggered: Shelf " \o ToString(shelf) \o " " \o name
               \o " (" \o severity \o ")")

\* acknowledge_alarm: every alarm of the shelf with this name, one log
\* entry each.
RECURSIVE acknowledge_from(_, _, _, _)
acknowledge_from(d, shelf, name, k) ==
  IF k > Len(d.alarms[shelf]) THEN d
  ELSE IF d.alarms[shelf][k].name = name
         THEN acknowledge_from(
                log([d EXCEPT !.alarms[shelf][k].ack = TRUE],
                    "Alarm acknowledged: Shelf " \o ToString(shelf) \o " " \o name),
                shelf, name, k + 1)
         ELSE acknowledge_from(d, shelf, name, k + 1)

acknowledge_alarm(d, shelf, name) == acknowledge_from(d, shelf, name, 1)

\* update_dummy_data: one shelf; delta is the draw of uniform(-0.3, 0.3).
DummyShelf(d, i, delta) ==
  IF ~d.bounds[i].isOn THEN d
  ELSE LET t == d.temps[i] + delta
           d1 == [d EXCEPT !.temps[i] = t, !.history[i] = DequeAppend(@, t)]
           d2 == IF t > d1.bounds[i].upper + 30
                   THEN simple_add_alarm(d1, i, "OVERTEMP", "ERROR",
                                         "Temperature above safe limit")
                   ELSE d1
       IN IF t < d2.bounds[i].lower - 30
            THEN simple_add_alarm(d2, i, "UNDERTEMP", "ERROR",
                                  "Temperature below safe limit")
            ELSE d2

RECURSIVE update_dummy_data(_, _, _)
update_dummy_data(d, i, deltas) ==
  IF i >= NUM_SHELVES THEN d
  ELSE update_dummy_data(DummyShelf(d, i, deltas[i]), i + 1, deltas)

\* --------------------------------------------------------------- state
VARIABLES
  serial,             \* the pyserial import succeeded (fixed for a run)
  demo_mode, num_shelves, shelves, hist, latest_temp, alarms, logs,
  maintenance, link, serial_connected, attempted_connect,
  last_update_ts, last_tick,
  now,                \* time.time()
  last,               \* the handler that ran last, with its inputs
  simple              \* the session state of dashboard.py

main_vars ==
  <<serial, demo_mode, num_shelves, shelves, hist, latest_temp, alarms, logs,
    maintenance, link, serial_connected, attempted_connect, last_update_ts,
    last_tick, now, last>>

vars == <<main_vars, simple>>

\* The session state a handler starting at time t works on.
SS(t) ==
  [serial |-> serial, demo_mode |-> demo_mode, num_shelves |-> num_shelves,
   shelves |-> shelves, hist |-> hist, latest_temp |-> latest_temp,
   alarms |-> alarms, logs |-> <<>>, maintenance |-> maintenance, link |-> link,
   serial_connected |-> serial_connected, attempted_connect |-> attempted_connect,
   last_update_ts |-> last_update_ts, last_tick |-> last_tick, now |-> t,
   exc |-> FALSE]

\* The session state a handler leaves behind.
Commit(s) ==
  /\ demo_mode' = s.demo_mode
  /\ num_shelves' = s.num_shelves
  /\ shelves' = s.shelves
  /\ hist' = s.hist
  /\ latest_temp' = s.latest_temp
  /\ alarms' = s.alarms
  /\ logs' = s.logs
  /\ maintenance' = s.maintenance
  /\ link' = s.link
  /\ serial_connected' = s.serial_connected
  /\ attempted_connect' = s.attempted_connect
  /\ last_update_ts' = s.last_update_ts
  /\ last_tick' = s.last_tick
  /\ now' = s.now
  /\ UNCHANGED <<serial, simple>>

\* The record of the handler that ran last: its name, the lines it read,
\* whether it ended in an unhandled exception, and the shelf count and the
\* history lengths it started from.
Op(op) ==
  [op |-> op, lines |-> <<>>, exc |-> FALSE, n0 |-> num_shelves,
   len0 |-> [i \in DOMAIN hist |-> Len(hist[i])]]

\* init_state
Init ==
  /\ serial \in BOOLEAN
  /\ demo_mode = TRUE
  /\ num_shelves = DEFAULT_NUM_SHELVES
  /\ shelves = [i \in 1..DEFAULT_NUM_SHELVES |-> DefaultShelf]
  /\ hist = [i \in 0..(DEFAULT_NUM_SHELVES - 1) |-> <<>>]
  /\ latest_temp = [i \in 1..DEFAULT_NUM_SHELVES |-> None]
  /\ alarms = [sev \in {"CRITICAL", "ERROR"} |-> <<>>]
  /\ logs = <<>>
  /\ maintenance = [fan_hours |-> 0, element_hours |-> 0,
                    fan_life_hours |-> DefaultFanLife,
                    element_life_hours |-> DefaultElementLife]
  /\ link = "None"
  /\ serial_connected = FALSE
  /\ attempted_connect = FALSE
  /\ last_update_ts = 0
  /\ last_tick = 1
  /\ now = 1
  /\ last = Op("init")
  /\ simple = [temps |-> [i \in SimpleShelves |-> StartTemp],
               bounds |-> [i \in SimpleShelves |-> SimpleBounds],
               history |-> [i \in SimpleShelves |-> <<>>],
               alarms |-> [i \in SimpleShelves |-> <<>>],
               logs |-> <<>>, now |-> 0]

\* ------------------------------------------------------------- actions
\* The runs of lines one tick may read: up to MaxLines lines, the last one
\* from Lines and the ones before it from Prefix.
Batches(Lines, Prefix) ==
  {<<>>} \cup
  UNION {{p \o <<l>> : p \in [1..n -> Prefix], l \in Lines} : n \in 0..(MaxLines - 1)}

\* The tick with the generator run in LIVE as well, before the ingest.
Tick_both(Lines, Prefix, Draws, Dts) ==
  \E dt \in Dts :
    /\ now + dt <= MaxTime
    /\ \E opened \in (IF serial /\ ~attempted_connect THEN BOOLEAN ELSE {FALSE}) :
       \E wfail \in (IF opened THEN BOOLEAN ELSE {FALSE}) :
       \E draws \in [0..(num_shelves - 1) -> Draws] :
         LET s1 == ensure_serial_once(SS(now + dt), opened, wfail)
         IN IF s1.demo_mode
              THEN /\ Commit(DemoTick(s1, draws))
                   /\ last' = Op("demo")
              ELSE \E lines \in Batches(Lines, Prefix) :
                     LET s2 == read_from_pi(DemoTick(s1, draws), lines)
                     IN /\ Commit(s2)
                        /\ last' = [Op("live") EXCEPT !.lines = lines, !.exc = s2.exc]

\* One auto-refresh run of the script, dt seconds after the previous
\* handler: ensure_serial_once, then the demo generator or the serial
\* ingest.  Runs are the runs of lines the port may deliver, Draws the
\* random draws of the generator.
TickOn(Runs, Draws, Dts) ==
  \E dt \in Dts :
    /\ now + dt <= MaxTime
    /\ \E opened \in (IF serial /\ ~attempted_connect THEN BOOLEAN ELSE {FALSE}) :
       \E wfail \in (IF opened THEN BOOLEAN ELSE {FALSE}) :
         LET s1 == ensure_serial_once(SS(now + dt), opened, wfail)
         IN IF s1.demo_mode
              THEN \E draws \in [0..(num_shelves - 1) -> Draws] :
                     /\ Commit(DemoTick(s1, draws))
                     /\ last' = Op("demo")
              ELSE \E lines \in Runs :
                     LET s2 == read_from_pi(s1, lines)
                     IN /\ Commit(s2)
                        /\ last' = [Op("live") EXCEPT !.lines = lines, !.exc = s2.exc]

\* The tick whose runs of lines are the short runs over Lines and Prefix.
Tick(Lines, Prefix, Draws, Dts) == TickOn(Batches(Lines, Prefix), Draws, Dts)

\* Alarms tab: the Acknowledge button of an unacknowledged record.
AckAlarm ==
  \E sev \in {"CRITICAL", "ERROR"} : \E k \in 1..Len(alarms[sev]) :
    \E wfail \in (IF link = "open" THEN BOOLEAN ELSE {FALSE}) :
      /\ ~alarms[sev][k].ack
      /\ Commit(ack_alarm(SS(now), sev, alarms[sev][k].shelf, alarms[sev][k].name, wfail))
      /\ last' = Op("ack")

AckAllAlarms ==
  /\ Commit(ack_all_alarms(SS(now)))
  /\ last' = Op("ack_all")

\* Connect / Reconnect switching to LIVE before any attempt.
Connect_live ==
  /\ Commit([SS(now) EXCEPT !.attempted_connect = FALSE, !.demo_mode = FALSE])
  /\ last' = Op("connect")

\* Settings tab: Connect / Reconnect
Connect ==
  /\ Commit([SS(now) EXCEPT !.attempted_connect = FALSE, !.demo_mode = TRUE])
  /\ last' = Op("connect")

\* Settings tab: Disconnect
Disconnect ==
  /\ Commit([SS(now) EXCEPT !.link = "None", !.serial_connected = FALSE,
                            !.demo_mode = TRUE])
  /\ last' = Op("disconnect")

\* One script run of dashboard.py: the handler of the pressed button, if
\* any, then update_dummy_data, then the sleep of one second.
SimpleRun(d, Draws) ==
  /\ simple.now < MaxRuns
  /\ \E deltas \in [SimpleShelves -> Draws] :
       simple' = [update_dummy_data(d, 0, deltas) EXCEPT !.now = @ + 1]
  /\ UNCHANGED main_vars

\* No button pressed.
SimpleRefresh(Draws) == SimpleRun([simple EXCEPT !.logs = <<>>], Draws)

\* Sidebar: Simulate Alarm
SimulateAlarm(Shelves, Names, Draws) ==
  \E shelf \in Shelves : \E alarm \in Names : \E severity \in {"ERROR", "CRITICAL"} :
    SimpleRun(simple_add_alarm([simple EXCEPT !.logs = <<>>], shelf, alarm, severity,
                               "Manually simulated alarm"), Draws)

\* Sidebar: Toggle Shelf ON/OFF
ToggleShelf(Shelves, Draws) ==
  \E shelf \in Shelves :
    SimpleRun(log([simple EXCEPT !.logs = <<>>, !.bounds[shelf].isOn = ~@],
                  "Shelf " \o ToString(shelf) \o " turned "
                    \o (IF simple.bounds[shelf].isOn THEN "OFF" ELSE "ON")), Draws)

\* Active Alarms: the Acknowledge button of an unacknowledged alarm.
Acknowledge(Draws) ==
  \E shelf \in SimpleShelves : \E k \in 1..Len(simple.alarms[shelf]) :
    /\ ~simple.alarms[shelf][k].ack
    /\ SimpleRun(acknowledge_alarm([simple EXCEPT !.logs = <<>>], shelf,
                                   simple.alarms[shelf][k].name), Draws)

\* -------------------------------------------------------------- inputs
\* Alarm entries a snapshot carries.
AOverheat == Alarm(Some("OVERHEAT"), Some("CRITICAL"), Some(TRUE), Some("x"), None)
AOvertempAck == Alarm(Some("OVERTEMP"), None, Some(TRUE), Some("x"), Some(TRUE))
AOvertemp == Alarm(Some("OVERTEMP"), Some("error"), Some(TRUE), Some("y"), None)
AFan == Alarm(Some("FAN"), Some("warning"), Some(TRUE), None, None)
AInactive == Alarm(Some("OVERHEAT"), Some("CRITICAL"), None, None, None)
ANameless == Alarm(None, None, Some(TRUE), None, None)

AlarmLists ==
  {<<>>, <<AOverheat, AOvertemp>>, <<AOvertempAck, AOvertemp>>, <<AOvertemp>>,
   <<AFan, AInactive>>, <<ANameless>>}

\* ALARM_STATE for shelf 1 (the identity absent) with every list, and for
\* shelf 2 with two of them.
AlarmStateMsgs ==
  {[Msg("ALARM_STATE") EXCEPT !.alarms = as] : as \in AlarmLists}
  \cup {[Msg("ALARM_STATE") EXCEPT !.shelf = Some(2), !.alarms = as] :
          as \in {<<>>, <<AOvertempAck, AOvertemp>>}}

\* The entry of shelf identity id that reports 75.0 degrees and nothing else.
Plain(id) == [Entry EXCEPT !.shelf = Some(id), !.temp = Some(750)]

\* STATUS of n shelves: plain entries, the one at enumerate position k is e.
Status(n, k, e) ==
  [Msg("STATUS") EXCEPT !.shelves = [j \in 1..n |-> IF j = k + 1 THEN e ELSE Plain(j)]]

\* Entries of the alarm runs.  One shelf: a hot or warm shelf with embedded
\* alarms.  Two shelves: a plain or hot entry, an unknown severity, an
\* identity that wraps.  More shelves: plain entries.
AlarmVariants(k, n) ==
  IF n = 1
    THEN {[Plain(k + 1) EXCEPT !.temp = Some(840)],
          [Plain(k + 1) EXCEPT !.temp = Some(840), !.alarms = <<AOverheat, AOvertemp>>],
          [Plain(k + 1) EXCEPT !.temp = Some(810), !.alarms = <<AOverheat>>]}
    ELSE IF n = 2
      THEN {Plain(k + 1),
            [Plain(k + 1) EXCEPT !.temp = Some(840)],
            [Plain(k + 1) EXCEPT !.alarms = <<AFan, ANameless>>],
            [Plain(k + 1) EXCEPT !.shelf = Some(0), !.temp = None,
                                 !.alarms = <<AOverheat>>]}
      ELSE {Plain(k + 1)}

\* STATUS of 1..MaxShelves shelves whose last entry is one of AlarmVariants.
AlarmStatusMsgs ==
  UNION {{Status(n, n - 1, e) : e \in AlarmVariants(n - 1, n)} : n \in 1..MaxShelves}

AlarmLines ==
  {Line("json", m) : m \in AlarmStateMsgs \cup AlarmStatusMsgs}

NextAlarm ==
  \/ Tick(AlarmLines, {}, {1}, {1})
  \/ AckAlarm
  \/ AckAllAlarms
  \/ Connect
  \/ Disconnect

SpecAlarm == Init /\ [][NextAlarm]_vars

\* Samples for shelf 1 (the identity absent) and shelf 2, and two whose
\* index is outside the store.
LiveTempMsgs ==
  {[Msg("LIVE_TEMP") EXCEPT !.shelf = sh, !.value = Some(v)] :
     sh \in {None, Some(2)}, v \in {700, 840}}
  \cup {[Msg("LIVE_TEMP") EXCEPT !.shelf = sh, !.value = Some(700)] :
          sh \in {Some(0), Some(MaxShelves + 1)}}

\* Entries of the store runs.  One shelf: a plain entry or one without a
\* sample.  Two shelves: bounds, an absent identity, identities outside the
\* store.  More shelves: a plain entry or an absent identity.
StoreVariants(k, n) ==
  IF n = 1
    THEN {Plain(k + 1),
          [Plain(k + 1) EXCEPT !.temp = None, !.setpoint = Some(<<700>>),
                               !.systemOn = Some(FALSE)]}
    ELSE IF n = 2
      THEN {Plain(k + 1),
            [Plain(k + 1) EXCEPT !.setpoint = Some(<<800, 820, 780>>)],
            [Plain(k + 1) EXCEPT !.shelf = None, !.temp = Some(760)],
            [Plain(k + 1) EXCEPT !.shelf = Some(0)],
            [Plain(k + 1) EXCEPT !.shelf = Some(n + 1)]}
      ELSE {Plain(k + 1),
            [Plain(k + 1) EXCEPT !.shelf = None, !.temp = None]}

\* STATUS of 1..MaxShelves shelves whose last entry is one of StoreVariants.
StoreStatusMsgs ==
  UNION {{Status(n, n - 1, e) : e \in StoreVariants(n - 1, n)} : n \in 1..MaxShelves}

StoreLines ==
  {Line("json", m) : m \in LiveTempMsgs \cup StoreStatusMsgs}

StorePrefix ==
  {Line("json", [Msg("LIVE_TEMP") EXCEPT !.value = Some(840)])}

NextStore ==
  \/ Tick(StoreLines, StorePrefix, {0, 2}, {1})
  \/ AckAlarm
  \/ AckAllAlarms
  \/ Connect
  \/ Disconnect

SpecStore == Init /\ [][NextStore]_vars

\* Lines of the link runs: a read that raises, text that is not JSON, a
\* message of no known type (its shelf and value would change shelf 1 if it
\* were taken for a sample), a LOG message, samples for shelf 1, shelf 2,
\* identity 0 and an identity beyond the store, and an ALARM_STATE whose
\* active entry has no name.
Unknown == [Msg("PING") EXCEPT !.shelf = Some(1), !.value = Some(840)]
Sample(sh, v) == [Msg("LIVE_TEMP") EXCEPT !.shelf = sh, !.value = Some(v)]
Nameless == [Msg("ALARM_STATE") EXCEPT !.alarms = <<ANameless>>]

LinkLines ==
  {Line("error", Msg("")), Line("raw", Msg(""))}
  \cup {Line("json", m) :
          m \in {Unknown, Msg("LOG"), Sample(None, 700), Sample(Some(2), 840),
                 Sample(Some(0), 700), Sample(Some(MaxShelves + 1), 700), Nameless}}

\* Lines that come before the last line of a run.
LinkPrefix ==
  {Line("blank", Msg("")), Line("json", Unknown), Line("json", Nameless)}

NextLink ==
  \/ Tick(LinkLines, LinkPrefix, {1}, {1})
  \/ AckAlarm
  \/ AckAllAlarms
  \/ Connect
  \/ Disconnect

SpecLink == Init /\ [][NextLink]_vars

\* STATUS messages of the maintenance runs, for the two shelves of the
\* start: accrued hours above and below a ceiling of 100 hours, a message
\* without the maintenance list (the default ceilings are written) that
\* carries an alarm, a list
\* that is too short (ignored), both shelves off, and ceilings of zero.
Hours(h) == h * SecPerHour

MaintStatus(e, maint) == [Status(2, 1, e) EXCEPT !.maintenance = maint]

MaintMsgs ==
  {MaintStatus([Plain(2) EXCEPT !.fanHours = Some(Hours(150)),
                                !.elementHours = Some(Hours(50))],
               Some(<<Hours(100), Hours(100)>>)),
   MaintStatus([Plain(2) EXCEPT !.fanHours = Some(Hours(50)),
                                !.alarms = <<AOvertemp>>], None),
   MaintStatus(Plain(2), Some(<<Hours(100)>>)),
   MaintStatus(Plain(2), Some(<<0, 0>>)),
   [Msg("STATUS") EXCEPT
      !.shelves = <<[Plain(1) EXCEPT !.systemOn = Some(FALSE)],
                    [Plain(2) EXCEPT !.systemOn = Some(FALSE)]>>,
      !.maintenance = Some(<<Hours(100), Hours(100)>>)]}

MaintLines == {Line("json", m) : m \in MaintMsgs}

NextMaint ==
  \/ Tick(MaintLines, {}, {1}, {1, 2})
  \/ AckAlarm
  \/ AckAllAlarms
  \/ Connect
  \/ Disconnect

SpecMaint == Init /\ [][NextMaint]_vars

\* STATUS messages of the generator runs, for the two shelves of the
\* start: shelf 2 powered off at 84.0 degrees (above upper + 6), at 75.0
\* degrees, at 0.1 degrees (the next decay is clamped) and at 0.0 degrees.
OffShelf(v) ==
  Status(2, 1, [Plain(2) EXCEPT !.systemOn = Some(FALSE), !.temp = Some(v)])

DemoMsgs == {OffShelf(840), OffShelf(750), OffShelf(1), OffShelf(0)}

DemoLines == {Line("json", m) : m \in DemoMsgs}

NextDemo ==
  \/ Tick(DemoLines, {}, {0, 1, 2}, {1})
  \/ AckAlarm
  \/ AckAllAlarms
  \/ Connect
  \/ Disconnect

SpecDemo == Init /\ [][NextDemo]_vars

\* Runs of the flood: the port always has another line.  n copies of one
\* line (a LOG message, text that is not JSON, a blank line), LOG messages
\* and blank lines in turn, and floods interrupted by an empty read or by a
\* read that raises.
Flood(l, n) == [k \in 1..n |-> l]

LogLine == Line("json", Msg("LOG"))
RawLine == Line("raw", Msg(""))
BlankLine == Line("blank", Msg(""))

FloodRuns ==
  {Flood(l, n) : l \in {LogLine, RawLine, BlankLine},
                 n \in {MAX_LINES - 1, MAX_LINES, MAX_LINES + FloodExtra}}
  \cup {[k \in 1..(MAX_LINES + FloodExtra) |-> IF k % 2 = 1 THEN BlankLine ELSE LogLine]}
  \cup {[Flood(LogLine, MAX_LINES + FloodExtra) EXCEPT ![k] = Line(stop, Msg(""))] :
          stop \in {"empty", "error"}, k \in {2, MAX_LINES, MAX_LINES + 1}}

NextFlood ==
  \/ TickOn(FloodRuns, {1}, {1})
  \/ Connect
  \/ Disconnect

SpecFlood == Init /\ [][NextFlood]_vars

\* Runs of dashboard.py: the walk goes down by 0.3 in every run (below
\* lower - 3 after seven), the operator simulates UNDERTEMP alarms of either
\* severity on shelf 0 and toggles shelf 1.
NextSimple ==
  \/ SimpleRefresh({-3})
  \/ SimulateAlarm({0}, {"UNDERTEMP"}, {-3})
  \/ ToggleShelf({1}, {-3})
  \/ Acknowledge({-3})

SpecSimple == Init /\ [][NextSimple]_vars

\* ------------------------------------------------------------- claims
\* Shelf indices an alarm record may carry.
ShelfIds == -1..(MaxShelves + 1)

\* The records of shelf j in a bucket, in order.
RECURSIVE OnlyShelf(_, _)
OnlyShelf(arr, j) ==
  IF arr = <<>> THEN <<>>
  ELSE IF Head(arr).shelf = j THEN <<Head(arr)>> \o OnlyShelf(Tail(arr), j)
       ELSE OnlyShelf(Tail(arr), j)

\* The last handler read exactly one line, a message of this type.
OneMsg(l, type) ==
  /\ l.op = "live"
  /\ Len(l.lines) = 1
  /\ l.lines[1].kind = "json"
  /\ l.lines[1].msg.type = type

\* Shelf indices whose alarms a message replaces.
Addressed(msg) ==
  IF msg.type = "ALARM_STATE" THEN {Get(msg.shelf, 1) - 1}
  ELSE IF msg.type = "STATUS"
         THEN {Get(msg.shelves[k].shelf, k - 1) - 1 : k \in 1..Len(msg.shelves)}
         ELSE {}

\* C1: no severity bucket of the registry holds two records with the same
\* (shelf, name).
C1_OnePerKey ==
  \A sev \in DOMAIN alarms : \A j, k \in 1..Len(alarms[sev]) :
    (alarms[sev][j].shelf = alarms[sev][k].shelf
       /\ alarms[sev][j].name = alarms[sev][k].name) => j = k

\* A snapshot that names the key (ERROR, shelf, OVERTEMP) twice was processed.
C1_Witness ==
  /\ OneMsg(last, "ALARM_STATE")
  /\ last.lines[1].msg.alarms = <<AOvertempAck, AOvertemp>>
  /\ find_alarm(alarms, "ERROR", Get(last.lines[1].msg.shelf, 1) - 1, "OVERTEMP") # 0

\* C2: add_alarm on a key that already has a record changes nothing: for
\* every record of the registry, a second raise of its key with any
\* description and ack value, at any later time, leaves the registry as it is
\* and appends no log entry; and the snapshot that names one key twice leaves
\* one record, with the description and ack of the first entry, and one log
\* entry.
C2_IdempotentRaise ==
  /\ \A sev \in DOMAIN alarms : \A k \in 1..Len(alarms[sev]) :
       \A desc \in {"x", "y"} : \A ack \in BOOLEAN :
         LET r == alarms[sev][k]
             s2 == add_alarm(SS(MaxTime + 1), sev, r.shelf, r.name, desc, ack)
         IN s2.alarms = alarms /\ s2.logs = <<>>
  /\ (OneMsg(last, "ALARM_STATE")
        /\ last.lines[1].msg.alarms = <<AOvertempAck, AOvertemp>>)
     => LET i == Get(last.lines[1].msg.shelf, 1) - 1
        IN /\ OnlyShelf(alarms["ERROR"], i)
                = <<[shelf |-> i, name |-> "OVERTEMP", desc |-> "x", ts |-> now,
                     ack |-> TRUE]>>
           /\ Cardinality({n \in 1..Len(logs) :
                              logs[n] = "Alarm: " \o KeyStr("ERROR", i, "OVERTEMP")}) = 1

\* The generator ran on a shelf above upper + 6 whose OVERHEAT record, raised
\* earlier with another description and acknowledged since, is as it was.
C2_Witness ==
  /\ last.op = "demo"
  /\ \E k \in 1..Len(alarms["CRITICAL"]) :
       LET r == alarms["CRITICAL"][k]
       IN /\ r.name = "OVERHEAT" /\ r.shelf \in 0..(num_shelves - 1)
          /\ r.ts < now /\ r.ack /\ r.desc = "x"
          /\ latest_temp[r.shelf + 1][1] > shelves[r.shelf + 1].upper + 60

\* C3: an acknowledged record stays acknowledged while it exists: a step
\* takes the record of a key from ack = TRUE to ack = FALSE only by
\* processing a snapshot (ALARM_STATE or STATUS) that replaces the alarms
\* of that shelf, in the CRITICAL or ERROR bucket.
C3_AckMonotonic ==
  [][\A sev \in DOMAIN alarms : \A k \in 1..Len(alarms[sev]) :
       LET r == alarms[sev][k]
           k2 == find_alarm(alarms', sev, r.shelf, r.name)
       IN (r.ack /\ k2 # 0 /\ ~alarms'[sev][k2].ack)
          => /\ last'.op = "live"
             /\ sev \in {"CRITICAL", "ERROR"}
             /\ \E n \in 1..Len(last'.lines) :
                  r.shelf \in Addressed(last'.lines[n].msg)]_vars

\* An acknowledged ERROR record outlived a snapshot for another shelf.
C3_Witness ==
  /\ OneMsg(last, "ALARM_STATE")
  /\ \E k \in 1..Len(alarms["ERROR"]) :
       /\ alarms["ERROR"][k].ack
       /\ alarms["ERROR"][k].ts < now
       /\ alarms["ERROR"][k].shelf \notin Addressed(last.lines[1].msg)

\* C4: after a tick of the demo generator no shelf of the store holds
\* both CRITICAL OVERHEAT and ERROR OVERTEMP.
C4_MutualExclusion ==
  last.op = "demo" =>
    \A i \in 0..(num_shelves - 1) :
      ~(find_alarm(alarms, "CRITICAL", i, "OVERHEAT") # 0
          /\ find_alarm(alarms, "ERROR", i, "OVERTEMP") # 0)

\* The tick kept or raised OVERHEAT on shelf 0 and cleared its OVERTEMP.
C4_Witness ==
  /\ last.op = "demo"
  /\ find_alarm(alarms, "CRITICAL", 0, "OVERHEAT") # 0
  /\ \E n \in 1..Len(logs) : logs[n] = "Cleared: " \o KeyStr("ERROR", 0, "OVERTEMP")

\* The active entries of a list, as the (severity, name, ack) they raise.
Raised(as) ==
  {<<Upper(Get(as[n].severity, "ERROR")), as[n].name[1], Get(as[n].ack, FALSE)>> :
     n \in {m \in 1..Len(as) : Get(as[m].active, FALSE) /\ as[m].name # None}}

\* C5: after an ALARM_STATE message has been processed, the records of its
\* shelf over every bucket are the active entries of the message, with the
\* ack of the source, and nothing else.
C5_SnapshotExact ==
  (OneMsg(last, "ALARM_STATE") /\ ~last.exc) =>
    LET msg == last.lines[1].msg
        i == Get(msg.shelf, 1) - 1
    IN /\ \A sev \in DOMAIN alarms : \A k \in 1..Len(alarms[sev]) :
            alarms[sev][k].shelf = i =>
              \E e \in Raised(msg.alarms) :
                e[1] = sev /\ e[2] = alarms[sev][k].name /\ e[3] = alarms[sev][k].ack
       /\ \A e \in Raised(msg.alarms) : find_alarm(alarms, e[1], i, e[2]) # 0

\* C6: a snapshot leaves the records of every shelf it does not address as
\* they were, in every bucket: the same records in the same order.
C6_OtherShelves ==
  [][last'.op = "live" =>
       \A j \in ShelfIds :
         (\A n \in 1..Len(last'.lines) : j \notin Addressed(last'.lines[n].msg))
         => \A sev \in DOMAIN alarms' :
              OnlyShelf(alarms'[sev], j) = OnlyShelf(Bucket(alarms, sev), j)]_vars

\* A snapshot for shelf index 1 was processed while shelf 0 held a record.
C6_Witness ==
  /\ OneMsg(last, "ALARM_STATE")
  /\ last.lines[1].msg.shelf = Some(2)
  /\ last.lines[1].msg.alarms # <<>>
  /\ \E sev \in DOMAIN alarms : \E k \in 1..Len(alarms[sev]) :
       alarms[sev][k].shelf = 0 /\ alarms[sev][k].ts < now

\* Index the entry at position k (1-based) of a STATUS message writes to.
EntryIdx(msg, k) == Get(msg.shelves[k].shelf, k - 1) - 1

\* Entries of a STATUS message of n entries that write to list position p.
Touching(msg, p) ==
  {k \in 1..Len(msg.shelves) :
     ValidIdx(EntryIdx(msg, k), Len(msg.shelves))
       /\ Pos(EntryIdx(msg, k), Len(msg.shelves)) = p}

Max(S) == CHOOSE x \in S : \A y \in S : y <= x

\* C7: a STATUS message whose shelf count differs from the store's
\* reallocates the store before its entries are applied: a shelf no entry
\* writes to has the default bounds, an empty history and no latest
\* temperature, a history holds only samples of the message, and a shelf an
\* entry writes to has the sample and power state of the last such entry; a
\* STATUS message with the same count leaves a shelf no entry writes to as
\* it was.
C7_ResizeDestructive ==
  [][OneMsg(last', "STATUS") =>
       LET msg == last'.lines[1].msg
           count == Len(msg.shelves)
       IN IF count # num_shelves
            THEN /\ num_shelves' = count
                 /\ Len(shelves') = count
                 /\ Len(latest_temp') = count
                 /\ DOMAIN hist' = 0..(count - 1)
                 /\ \A p \in 1..count :
                      /\ Touching(msg, p) = {} =>
                           /\ shelves'[p] = DefaultShelf
                           /\ hist'[p - 1] = <<>>
                           /\ latest_temp'[p] = None
                      /\ Len(hist'[p - 1]) <= Cardinality(Touching(msg, p))
                      /\ \A x \in 1..Len(hist'[p - 1]) :
                           \E k \in Touching(msg, p) : msg.shelves[k].temp = hist'[p - 1][x]
                      /\ (Touching(msg, p) # {} /\ ~last'.exc) =>
                           LET e == msg.shelves[Max(Touching(msg, p))]
                           IN /\ latest_temp'[p] = e.temp
                              /\ shelves'[p].is_on = Get(e.systemOn, TRUE)
            ELSE /\ num_shelves' = num_shelves
                 /\ \A p \in 1..count :
                      Touching(msg, p) = {} =>
                        /\ shelves'[p] = shelves[p]
                        /\ hist'[p - 1] = hist[p - 1]
                        /\ latest_temp'[p] = latest_temp[p]]_vars

\* A STATUS message changed the shelf count while a shelf that is still in
\* the store held samples, and its history is empty now.
C7_Witness ==
  /\ OneMsg(last, "STATUS")
  /\ last.n0 # num_shelves
  /\ \E i \in DOMAIN last.len0 :
       i < num_shelves /\ last.len0[i] > 0 /\ hist[i] = <<>>

\* The last n elements of a sequence.
LastN(q, n) == IF Len(q) <= n THEN q ELSE SubSeq(q, Len(q) - n + 1, Len(q))

\* The samples a run of LIVE_TEMP lines appends to shelf index i, in order.
RECURSIVE SamplesFor(_, _)
SamplesFor(lines, i) ==
  IF lines = <<>> THEN <<>>
  ELSE IF Get(Head(lines).msg.shelf, 1) - 1 = i
         THEN <<Head(lines).msg.value>> \o SamplesFor(Tail(lines), i)
         ELSE SamplesFor(Tail(lines), i)

\* The last handler read LIVE_TEMP messages only, and none raised.
OnlySamples(l) ==
  /\ l.op = "live" /\ ~l.exc
  /\ \A n \in 1..Len(l.lines) :
       l.lines[n].kind = "json" /\ l.lines[n].msg.type = "LIVE_TEMP"

\* The samples the entries k.. of a STATUS message append to list position
\* p, in order.
RECURSIVE StatusSamples(_, _, _)
StatusSamples(msg, k, p) ==
  IF k > Len(msg.shelves) THEN <<>>
  ELSE (IF k \in Touching(msg, p) /\ msg.shelves[k].temp # None
          THEN <<msg.shelves[k].temp>> ELSE <<>>)
       \o StatusSamples(msg, k + 1, p)

\* C9: a history never holds more than HISTORY_LEN samples, and the samples
\* a step appends to a shelf (a run of LIVE_TEMP messages, a STATUS message,
\* a tick of the generator) leave the last HISTORY_LEN samples of the old
\* history followed by the new ones, in arrival order.
C9_BoundedFifo ==
  /\ [](\A i \in DOMAIN hist : Len(hist[i]) <= HISTORY_LEN)
  /\ [][/\ OnlySamples(last') =>
             \A i \in DOMAIN hist :
               hist'[i] = LastN(hist[i] \o SamplesFor(last'.lines, i), HISTORY_LEN)
        /\ (OneMsg(last', "STATUS") /\ ~last'.exc) =>
             LET msg == last'.lines[1].msg
             IN \A p \in 1..Len(msg.shelves) :
                  hist'[p - 1] =
                    LastN((IF Len(msg.shelves) = num_shelves THEN hist[p - 1] ELSE <<>>)
                            \o StatusSamples(msg, 1, p), HISTORY_LEN)
        /\ last'.op = "demo" =>
             \A i \in DOMAIN hist :
               hist'[i] = LastN(hist[i] \o <<latest_temp'[i + 1]>>, HISTORY_LEN)]_vars

\* More samples than the capacity have been appended to shelf 0.
C9_Witness ==
  /\ OnlySamples(last)
  /\ 0 \in DOMAIN last.len0
  /\ last.len0[0] + Len(SamplesFor(last.lines, 0)) > HISTORY_LEN
  /\ Len(hist[0]) = HISTORY_LEN

\* C8: every alarm record's shelf index is below the current shelf count.
C8_AlarmShelfInRange ==
  \A sev \in DOMAIN alarms : \A k \in 1..Len(alarms[sev]) :
    alarms[sev][k].shelf < num_shelves

\* C10: the mode leaves DEMO only in a step that makes the one pending
\* connection attempt and leaves the link open.
C10_LiveOnlyOnConnect ==
  [][(demo_mode /\ ~demo_mode')
       => /\ ~attempted_connect /\ attempted_connect'
          /\ link' = "open" /\ serial_connected'
          /\ last'.op = "live"]_vars

\* A tick opened the link and left the mode LIVE.
C10_Witness ==
  /\ ~demo_mode /\ link = "open" /\ last.op = "live"
  /\ \E n \in 1..Len(logs) : logs[n] = "Connected"

\* A log entry of the last handler.
Logged(entry) == \E n \in 1..Len(logs) : logs[n] = entry

\* C11: after a tick in which a read from or a write to the link failed,
\* the mode is DEMO.
C11_FailureFallsBack ==
  (last.op = "live" /\ (Logged("Serial read error") \/ Logged("Serial write error")))
    => demo_mode

\* The last handler read no decoded message (of the given type).
NoJson(l) == \A n \in 1..Len(l.lines) : l.lines[n].kind # "json"
NoMsg(l, type) ==
  \A n \in 1..Len(l.lines) : l.lines[n].kind = "json" => l.lines[n].msg.type # type

\* C12: every tick runs the generator or the serial ingest, the one the mode
\* (after the tick's connection attempt) selects.  A DEMO tick is a run of
\* the generator: it stamps last_tick, appends one sample, the new latest
\* temperature, to every history and keeps the shelf count.  A LIVE tick is
\* a run of the ingest: it leaves last_tick alone, changes the maintenance
\* record only through a STATUS message, changes shelves, temperatures,
\* histories and alarms only through a decoded message, and has read the
\* lines (text that is not JSON is in the log).
C12_OneEngine ==
  [][/\ now' # now => last'.op \in {"demo", "live"}
     /\ last'.op \in {"demo", "live"} =>
          /\ now' > now
          /\ (last'.op = "demo") <=> demo_mode'
     /\ last'.op = "demo" =>
          /\ last_tick' = now'
          /\ num_shelves' = num_shelves
          /\ \A i \in DOMAIN hist :
               /\ latest_temp'[i + 1] # None
               /\ hist'[i] = LastN(hist[i] \o <<latest_temp'[i + 1]>>, HISTORY_LEN)
     /\ last'.op = "live" =>
          /\ last_tick' = last_tick
          /\ NoMsg(last', "STATUS") => maintenance' = maintenance
          /\ NoJson(last') =>
               /\ shelves' = shelves /\ hist' = hist
               /\ latest_temp' = latest_temp /\ alarms' = alarms
          /\ (\E n \in 1..Len(last'.lines) : last'.lines[n].kind = "raw")
               => \E n \in 1..Len(logs') : logs'[n] = "RAW"]_vars

\* A LIVE tick applied a sample and a DEMO tick had run before it.
C12_Witness ==
  /\ last.op = "live" /\ ~last.exc
  /\ \E n \in 1..Len(last.lines) :
       last.lines[n].kind = "json" /\ last.lines[n].msg.type = "LIVE_TEMP"
  /\ last_tick > 1 /\ last_tick < now

\* C13: a message of no known type, or an ALARM_STATE that is not well
\* formed (an active entry without a name), does not abort the batch: the
\* sample for shelf 1 that follows it in the same batch is applied.
C13_MalformedIgnored ==
  (/\ last.op = "live"
   /\ Len(last.lines) = 2
   /\ last.lines[1] \in {Line("json", Unknown), Line("json", Nameless)}
   /\ last.lines[2] = Line("json", Sample(None, 700)))
  => /\ ~last.exc
     /\ latest_temp[1] = Some(700)
     /\ hist[0] # <<>>

\* Entries of a STATUS message whose identity is missing, zero or greater
\* than the number of entries.
BadEntries(msg) ==
  {k \in 1..Len(msg.shelves) :
     \/ msg.shelves[k].shelf = None
     \/ msg.shelves[k].shelf[1] = 0
     \/ msg.shelves[k].shelf[1] > Len(msg.shelves)}

\* The other entries whose identity is p.
GoodAt(msg, p) ==
  {k \in (1..Len(msg.shelves)) \ BadEntries(msg) : msg.shelves[k].shelf[1] = p}

\* C14: a STATUS entry whose identity is missing, zero or beyond the count
\* is skipped: the message raises nothing, a shelf no other entry names is
\* as the resize left it (or as it was, when the count is the same), and a
\* shelf another entry names has that entry's sample.
C14_BadEntrySkipped ==
  [][OneMsg(last', "STATUS") =>
       LET msg == last'.lines[1].msg
           count == Len(msg.shelves)
       IN /\ ~last'.exc
          /\ \A p \in 1..count :
               IF GoodAt(msg, p) # {}
                 THEN latest_temp'[p] = msg.shelves[Max(GoodAt(msg, p))].temp
                 ELSE IF count # num_shelves
                        THEN /\ shelves'[p] = DefaultShelf
                             /\ latest_temp'[p] = None
                             /\ hist'[p - 1] = <<>>
                        ELSE /\ shelves'[p] = shelves[p]
                             /\ latest_temp'[p] = latest_temp[p]
                             /\ hist'[p - 1] = hist[p - 1]]_vars

\* C15: a LIVE_TEMP message whose index is not below the shelf count raises
\* no unhandled exception and appends to no history.
C15_OutOfRangeNoOp ==
  (OneMsg(last, "LIVE_TEMP") /\ Get(last.lines[1].msg.shelf, 1) - 1 >= last.n0)
  => /\ ~last.exc
     /\ \A i \in DOMAIN hist : Len(hist[i]) = last.len0[i]

\* C16: no step lowers the fan hours or the element hours.
C16_HoursMonotonic ==
  [][/\ maintenance'.fan_hours >= maintenance.fan_hours
     /\ maintenance'.element_hours >= maintenance.element_hours]_vars

\* C17: the remaining life of the fan and of the element is the ceiling
\* minus the accrued hours when that is positive and zero otherwise; it is
\* never negative.
C17_RemainingLife ==
  LET m == maintenance
  IN /\ remain_fan(m) >= 0
     /\ remain_elem(m) >= 0
     /\ IF m.fan_hours <= m.fan_life_hours
          THEN remain_fan(m) + m.fan_hours = m.fan_life_hours
          ELSE remain_fan(m) = 0
     /\ IF m.element_hours <= m.element_life_hours
          THEN remain_elem(m) + m.element_hours = m.element_life_hours
          ELSE remain_elem(m) = 0

\* Telemetry lowered the fan ceiling to 100 hours with 150 hours accrued.
C17_Witness ==
  /\ maintenance.fan_life_hours = Hours(100)
  /\ maintenance.fan_hours = Hours(150)
  /\ remain_fan(maintenance) = 0
  /\ remain_elem(maintenance) = Hours(50)

\* Alarm names of the inputs and of the generator.
AlarmNames == {"OVERHEAT", "OVERTEMP", "FAN", "ALARM"}

\* C18: in every state, clear_alarm on any key leaves no record of the key
\* and the other records as they are; when the key had a record, its bucket
\* is one shorter and one log entry is appended; when it had none, the
\* registry is unchanged and nothing is logged; a following add_alarm with
\* the default ack creates the record of the key, unacknowledged and with
\* the time of the raise.  (A severity without a bucket raises KeyError and
\* changes nothing.)
C18_ClearRemoves ==
  \A sev \in DOMAIN alarms \cup {"INFO"} : \A shelf \in ShelfIds : \A name \in AlarmNames :
    LET k == find_alarm(alarms, sev, shelf, name)
        s1 == clear_alarm(SS(MaxTime + 1), sev, shelf, name)
        s2 == add_alarm(s1, sev, shelf, name, "z", FALSE)
        k2 == find_alarm(s2.alarms, sev, shelf, name)
    IN /\ s1.exc <=> sev \notin DOMAIN alarms
       /\ find_alarm(s1.alarms, sev, shelf, name) = 0
       /\ \A sv \in DOMAIN alarms :
            s1.alarms[sv] =
              SelectSeq(alarms[sv],
                        LAMBDA r : ~(sv = sev /\ r.shelf = shelf /\ r.name = name))
       /\ IF k # 0
            THEN /\ Len(s1.alarms[sev]) = Len(alarms[sev]) - 1
                 /\ s1.logs = <<"Cleared: " \o KeyStr(sev, shelf, name)>>
            ELSE s1.alarms = alarms /\ s1.logs = <<>>
       /\ k2 # 0
       /\ s2.alarms[sev][k2] =
            [shelf |-> shelf, name |-> name, desc |-> "z", ts |-> MaxTime + 1,
             ack |-> FALSE]

\* A tick of the generator cleared the OVERTEMP record of shelf 0, and the
\* shelf holds neither alarm.
C18_Witness ==
  /\ last.op = "demo"
  /\ Logged("Cleared: " \o KeyStr("ERROR", 0, "OVERTEMP"))
  /\ find_alarm(alarms, "ERROR", 0, "OVERTEMP") = 0
  /\ find_alarm(alarms, "CRITICAL", 0, "OVERHEAT") = 0

\* The log entries of a handler that record an attempt to open the port.
Attempts(lg) == {n \in 1..Len(lg) : lg[n] \in {"Connected", "Failed to open"}}

\* C19: a tick tries to open the port only when a request is pending (the
\* start, or Connect / Reconnect since the last attempt), tries once, and
\* leaves no request pending; only Connect / Reconnect makes a request; a
\* failed attempt leaves the mode DEMO in the same tick, which then runs the
\* generator.
C19_NoRetryStorm ==
  [][/\ last'.op \in {"demo", "live"} =>
          /\ attempted_connect'
          /\ Attempts(logs') # {} => ~attempted_connect
          /\ (~attempted_connect /\ serial) => Cardinality(Attempts(logs')) = 1
          /\ (\E n \in 1..Len(logs') : logs'[n] = "Failed to open") =>
               demo_mode' /\ link' # "open" /\ last'.op = "demo"
     /\ (attempted_connect /\ ~attempted_connect') => last'.op = "connect"
     /\ last'.op = "connect" => ~attempted_connect']_vars

\* A tick after a failed attempt ran the generator without a new attempt.
C19_Witness ==
  /\ last.op = "demo" /\ serial /\ attempted_connect
  /\ link = "closed" /\ Attempts(logs) = {}
  /\ now = MaxTime

\* C20: a LIVE_TEMP message leaves the alarm registry, the bounds and power
\* state of every shelf, the maintenance record and the shelf count as they
\* were, and the latest temperature and the history of every shelf other
\* than the one at index identity - 1 (0 when the identity is absent).
C20_SampleFrame ==
  [][OneMsg(last', "LIVE_TEMP") =>
       LET i == Get(last'.lines[1].msg.shelf, 1) - 1
       IN /\ alarms' = alarms
          /\ shelves' = shelves
          /\ maintenance' = maintenance
          /\ num_shelves' = num_shelves
          /\ \A j \in 0..(num_shelves - 1) :
               j # i => /\ latest_temp'[j + 1] = latest_temp[j + 1]
                        /\ hist'[j] = hist[j]]_vars

\* C21: after ack_all_alarms every record of every bucket is acknowledged
\* and one log entry was appended.
C21_AckAllEveryBucket ==
  last.op = "ack_all" =>
    /\ \A sev \in DOMAIN alarms : \A k \in 1..Len(alarms[sev]) : alarms[sev][k].ack
    /\ logs = <<"Ack all alarms">>

\* C22: a tick of the generator adds the time elapsed since the previous
\* tick (the clock advances only in ticks) to the fan hours and to the
\* element hours when a shelf is on, and leaves them unchanged when every
\* shelf is off.
C22_DemoAccrual ==
  [][last'.op = "demo" =>
       IF \E k \in 1..Len(shelves) : shelves[k].is_on
         THEN /\ maintenance'.fan_hours = maintenance.fan_hours + (now' - now)
              /\ maintenance'.element_hours = maintenance.element_hours + (now' - now)
         ELSE /\ maintenance'.fan_hours = maintenance.fan_hours
              /\ maintenance'.element_hours = maintenance.element_hours]_vars

\* The entries of a STATUS message that carry the field (fanHours or
\* elementHours).
Carrying(msg, field) ==
  {k \in 1..Len(msg.shelves) : msg.shelves[k][field] # None}

\* C23: a STATUS message overwrites the maintenance fields only when it
\* provides them: without the list of life ceilings the two ceilings stay
\* as they are, and without fan (element) hours in any shelf entry the
\* accrued fan (element) hours stay as they are.
C23_OnlyWhenProvided ==
  [][(OneMsg(last', "STATUS") /\ ~last'.exc) =>
       LET msg == last'.lines[1].msg
       IN /\ msg.maintenance = None =>
               /\ maintenance'.fan_life_hours = maintenance.fan_life_hours
               /\ maintenance'.element_life_hours = maintenance.element_life_hours
          /\ Carrying(msg, "fanHours") = {} =>
               maintenance'.fan_hours = maintenance.fan_hours
          /\ Carrying(msg, "elementHours") = {} =>
               maintenance'.element_hours = maintenance.element_hours]_vars

\* Alarm names of the temperature heuristics.
TempAlarmNames == {"OVERHEAT", "OVERTEMP", "UNDERTEMP"}

\* C24: a tick of the generator inserts no OVERHEAT, OVERTEMP or UNDERTEMP
\* record for a shelf that is powered off.
C24_OffShelfNoAlarm ==
  [][last'.op = "demo" =>
       \A i \in 0..(num_shelves - 1) :
         ~shelves[i + 1].is_on =>
           \A sev \in DOMAIN alarms' : \A name \in TempAlarmNames :
             find_alarm(alarms', sev, i, name) # 0 =>
               (sev \in DOMAIN alarms /\ find_alarm(alarms, sev, i, name) # 0)]_vars

\* C27: a tick of the generator never raises the latest temperature of a
\* shelf that is powered off and has one: the new value is the old one
\* lowered by 0 to 0.2 degrees, or 0 when that would be negative.
C27_OffShelfDecays ==
  [][last'.op = "demo" =>
       \A i \in 0..(num_shelves - 1) :
         (~shelves[i + 1].is_on /\ latest_temp[i + 1] # None) =>
           LET old == latest_temp[i + 1][1]
               new == latest_temp'[i + 1][1]
           IN /\ new <= old
              /\ new >= old - 2 \/ new = MIN_TEMP]_vars

\* The number of entries e the last handler logged.
Count(e) == Cardinality({k \in 1..Len(logs) : logs[k] = e})

\* The lines of a run the drain gets to: those among the first MAX_LINES
\* that come before the first empty read or read error.
Drained(lines) ==
  {k \in 1..Len(lines) :
     /\ k <= MAX_LINES
     /\ \A j \in 1..k : lines[j].kind \notin {"empty", "error"}}

\* C25: the drain of one tick is bounded and stops at the first empty read
\* or read error: the messages processed (one log entry per LOG message) are
\* the JSON lines among the first 200 lines before the stop, the RAW entries
\* those of the other text lines among them, neither more than 200 however
\* long the run is, and the read error is logged when it is what stopped
\* the drain.
C25_BoundedDrain ==
  last.op = "live" =>
    LET lines == last.lines
        next == Cardinality(Drained(lines)) + 1
    IN /\ Count("INFO: ") = Cardinality({k \in Drained(lines) : lines[k] = LogLine})
       /\ Count("RAW") = Cardinality({k \in Drained(lines) : lines[k].kind = "raw"})
       /\ Count("INFO: ") <= MAX_LINES
       /\ Count("RAW") <= MAX_LINES
       /\ Count("Serial read error")
            = IF next <= MAX_LINES /\ next <= Len(lines) /\ lines[next].kind = "error"
                THEN 1 ELSE 0

\* A tick drained a run of more than 200 LOG messages and processed 200.
C25_Witness ==
  /\ last.op = "live"
  /\ Len(last.lines) > MAX_LINES
  /\ \A k \in 1..Len(last.lines) : last.lines[k] = LogLine
  /\ Count("INFO: ") = MAX_LINES

\* C26: the shelf array, the latest-temperature array and the key set of
\* the history map all have exactly num_shelves entries, indexed
\* 0..num_shelves-1 (arrays of the model start at 1), in every state.
C26_ShapeConsistent ==
  /\ num_shelves >= 0
  /\ DOMAIN shelves = 1..num_shelves
  /\ DOMAIN latest_temp = 1..num_shelves
  /\ DOMAIN hist = 0..(num_shelves - 1)

\* A STATUS message that changed the shelf count was processed to its end.
C26_Witness ==
  /\ OneMsg(last, "STATUS")
  /\ ~last.exc
  /\ last.n0 # num_shelves
  /\ num_shelves = Len(last.lines[1].msg.shelves)

\* C28: once the first tick has run, the tick that follows a Disconnect
\* makes no connection attempt and leaves the mode DEMO (it runs the
\* generator), and the tick that follows Connect / Reconnect makes exactly
\* one attempt.
C28_DisconnectHolds ==
  [][/\ (last.op = "disconnect" /\ now > 1 /\ last'.op \in {"demo", "live"})
          => /\ last'.op = "demo"
             /\ demo_mode'
             /\ Attempts(logs') = {}
     /\ (last.op = "connect" /\ last'.op \in {"demo", "live"} /\ serial)
          => Cardinality(Attempts(logs')) = 1]_vars

\* C29: in dashboard.py a shelf's alarm list never holds two alarms with the
\* same name, add_alarm with a name the shelf already holds changes nothing
\* whatever severity is passed, and no run removes or rewrites an alarm or
\* takes an acknowledged alarm back to unacknowledged.
C29_SimpleAlarms ==
  /\ [](\A i \in SimpleShelves : \A j, k \in 1..Len(simple.alarms[i]) :
          /\ simple.alarms[i][j].name = simple.alarms[i][k].name => j = k
          /\ \A severity \in {"ERROR", "CRITICAL"} :
               simple_add_alarm(simple, i, simple.alarms[i][k].name, severity, "x")
                 = simple)
  /\ [][\A i \in SimpleShelves : \A k \in 1..Len(simple.alarms[i]) :
          /\ k <= Len(simple'.alarms[i])
          /\ simple'.alarms[i][k]
               = [simple.alarms[i][k] EXCEPT !.ack = simple'.alarms[i][k].ack]
          /\ simple.alarms[i][k].ack => simple'.alarms[i][k].ack]_vars

\* Shelf 0 fell below lower - 3 while it held an UNDERTEMP alarm the operator
\* had simulated as CRITICAL and acknowledged: the ERROR raise of the run
\* changed nothing.
C29_Witness ==
  /\ simple.temps[0] < SimpleBounds.lower - 30
  /\ simple.bounds[0].isOn
  /\ Len(simple.alarms[0]) = 1
  /\ simple.alarms[0][1].name = "UNDERTEMP"
  /\ simple.alarms[0][1].severity = "CRITICAL"
  /\ simple.alarms[0][1].ack
  /\ simple.alarms[0][1].ts < simple.now - 1
====
